---- MODULE Spec2Model ----
(***************************************************************************)
(* State-management engine of the Bitcoin canister: the tree of unstable   *)
(* blocks (blocktree.rs), the state envelope that inserts blocks and moves *)
(* stable blocks into the UTXO set (state.rs), and the parts of            *)
(* unstable_blocks / utxoset those two call.                               *)
(***************************************************************************)
EXTENDS Integers, Sequences, FiniteSets, TLC

\* ------------------------------------------------------------------ bounds
\* Number of non-genesis block hashes (hashes are 1..NumBlocks, genesis is 0).
NumBlocks == 3

\* Largest stability threshold a State is built with (0..MaxThreshold).
MaxThreshold == 2

\* Largest number of ingestion steps the performance counter lets one call of
\* ingest_stable_blocks_into_utxoset run before it exceeds the threshold.
MaxBudget == 4

\* ------------------------------------------------------------ Option / Result
\* Option<T> is a sequence of length at most one.
None == <<>>

Some(x) == <<x>>

IsSome(o) == o # None

Unwrap(o) == o[1]

\* ------------------------------------------------------------------- blocks
\* The hash of the genesis block, and the prev_blockhash of the genesis block
\* (the all-zero hash, which is the hash of no block).
GenesisHash == 0

ZeroHash == -1

\* A block is its hash and its header's prev_blockhash; its transactions are
\* a function of the block (Txs below).  A block's hash is larger than its
\* predecessor's: hashes form no cycle.
genesis_block == [hash |-> GenesisHash, prev_blockhash |-> ZeroHash]

BlocksUpTo(n) == {b \in [hash : 1..n, prev_blockhash : GenesisHash..(n - 1)] :
                     b.prev_blockhash < b.hash}

Blocks == BlocksUpTo(NumBlocks)

block_hash(block) == block.hash

\* --------------------------------------------------------------- block tree
\* BlockTree { root, children }.
BlockTree_new(root) == [root |-> root, children |-> <<>>]

\* BlockChain { first, successors }.
BlockChain_new(first) == [first |-> first, successors |-> <<>>]

BlockChain_push(chain, block) == [chain EXCEPT !.successors = Append(@, block)]

BlockChain_len(chain) == Len(chain.successors) + 1

BlockChain_first(chain) == chain.first

into_chain(chain) == <<chain.first>> \o chain.successors

Max(a, b) == IF a >= b THEN a ELSE b

SetMax(S) == CHOOSE x \in S : \A y \in S : y <= x

\* contains that looks below the root only.
RECURSIVE contains_below_root(_, _)
contains_below_root(block_tree, block) ==
    \E i \in 1..Len(block_tree.children) :
        \/ block_hash(block_tree.children[i].root) = block_hash(block)
        \/ contains_below_root(block_tree.children[i], block)

\* contains that looks at the root only.
contains_root_only(block_tree, block) ==
    block_hash(block_tree.root) = block_hash(block)

RECURSIVE contains(_, _)
RECURSIVE contains_children(_, _, _)
\* The `for child in children` loop of contains, from child i on.
contains_children(children, i, block) ==
    IF i > Len(children) THEN FALSE
    ELSE IF contains(children[i], block) THEN TRUE
    ELSE contains_children(children, i + 1, block)

contains(block_tree, block) ==
    IF block_hash(block_tree.root) = block_hash(block) THEN TRUE
    ELSE contains_children(block_tree.children, 1, block)

\* find_mut returns a mutable reference to a subtree; the reference is the
\* path of child indices from the tree's root to it.
RECURSIVE find_mut(_, _)
RECURSIVE find_mut_children(_, _, _)
find_mut_children(children, i, blockhash) ==
    IF i > Len(children) THEN None
    ELSE LET res == find_mut(children[i], blockhash) IN
         IF IsSome(res) THEN Some(<<i>> \o Unwrap(res))
         ELSE find_mut_children(children, i + 1, blockhash)

find_mut(block_tree, blockhash) ==
    IF block_hash(block_tree.root) = blockhash THEN Some(<<>>)
    ELSE find_mut_children(block_tree.children, 1, blockhash)

\* The subtree a reference (path) points to.
RECURSIVE deref(_, _)
deref(block_tree, path) ==
    IF path = <<>> THEN block_tree
    ELSE deref(block_tree.children[Head(path)], Tail(path))

\* The new leaf put in front of the children instead of behind them.
RECURSIVE children_push_front(_, _, _)
children_push_front(block_tree, path, block) ==
    IF path = <<>>
    THEN [block_tree EXCEPT !.children = <<[root |-> block, children |-> <<>>]>> \o @]
    ELSE [block_tree EXCEPT
            !.children[Head(path)] = children_push_front(@, Tail(path), block)]

\* block_subtree.children.push(BlockTree::new(block)) through the reference.
RECURSIVE children_push(_, _, _)
children_push(block_tree, path, block) ==
    IF path = <<>>
    THEN [block_tree EXCEPT !.children = Append(@, BlockTree_new(block))]
    ELSE [block_tree EXCEPT
            !.children[Head(path)] = children_push(@, Tail(path), block)]

Ok == [ok |-> TRUE, err |-> None]

BlockDoesNotExtendTree(block) == [ok |-> FALSE, err |-> Some(block)]

\* extend that returns Ok(()) for a block that extends no block of the tree.
extend_swallows_error(block_tree, block) ==
    IF contains(block_tree, block)
    THEN [tree |-> block_tree, result |-> Ok]
    ELSE LET found == find_mut(block_tree, block.prev_blockhash) IN
         [tree |-> IF IsSome(found)
                   THEN children_push(block_tree, Unwrap(found), block)
                   ELSE block_tree,
          result |-> Ok]

\* extend: the tree after the call and the Result it returns.
extend(block_tree, block) ==
    IF contains(block_tree, block)
    THEN [tree |-> block_tree, result |-> Ok]
    ELSE LET found == find_mut(block_tree, block.prev_blockhash) IN
         IF IsSome(found)
         THEN [tree |-> children_push(block_tree, Unwrap(found), block),
               result |-> Ok]
         ELSE [tree |-> block_tree, result |-> BlockDoesNotExtendTree(block)]

\* The assert_eq! of extend: the subtree found has the block's predecessor as root.
extend_assert(block_tree, block) ==
    LET found == find_mut(block_tree, block.prev_blockhash) IN
    IsSome(found) =>
        block_hash(deref(block_tree, Unwrap(found)).root) = block.prev_blockhash

\* s with f applied to each element.
RECURSIVE MapSeq(_, _)
MapSeq(f(_), s) == IF s = <<>> THEN <<>> ELSE <<f(Head(s))>> \o MapSeq(f, Tail(s))

\* blockchains visiting the children from the last inserted to the first.
RECURSIVE blockchains_last_child_first(_)
RECURSIVE blockchains_from_child(_, _)
blockchains_from_child(block_tree, i) ==
    IF i = 0 THEN <<>>
    ELSE LET prefixed(bc) == [first |-> block_tree.root, successors |-> into_chain(bc)]
         IN MapSeq(prefixed, blockchains_last_child_first(block_tree.children[i]))
            \o blockchains_from_child(block_tree, i - 1)

blockchains_last_child_first(block_tree) ==
    IF block_tree.children = <<>>
    THEN <<[first |-> block_tree.root, successors |-> <<>>]>>
    ELSE blockchains_from_child(block_tree, Len(block_tree.children))

RECURSIVE blockchains(_)
RECURSIVE blockchains_children(_, _, _)
\* The loop of blockchains without the root put in front of the chains.
RECURSIVE blockchains_children_unprefixed(_, _, _)
blockchains_children_unprefixed(block_tree, i, tips) ==
    IF i > Len(block_tree.children) THEN tips
    ELSE blockchains_children_unprefixed(block_tree, i + 1,
            tips \o blockchains(block_tree.children[i]))

\* The loop of blockchains: tips extended with the chains of child i on.
blockchains_children(block_tree, i, tips) ==
    IF i > Len(block_tree.children) THEN tips
    ELSE LET prefixed(bc) == [first |-> block_tree.root, successors |-> into_chain(bc)]
         IN blockchains_children(block_tree, i + 1,
                tips \o MapSeq(prefixed, blockchains(block_tree.children[i])))

blockchains(block_tree) ==
    IF block_tree.children = <<>>
    THEN <<[first |-> block_tree.root, successors |-> <<>>]>>
    ELSE blockchains_children(block_tree, 1, <<>>)

RECURSIVE Reverse(_)
Reverse(s) == IF s = <<>> THEN <<>> ELSE Append(Reverse(Tail(s)), Head(s))

RECURSIVE get_chain_with_tip_reverse(_, _)
RECURSIVE get_chain_with_tip_reverse_children(_, _, _)
get_chain_with_tip_reverse_children(block_tree, i, tip) ==
    IF i > Len(block_tree.children) THEN None
    ELSE LET res == get_chain_with_tip_reverse(block_tree.children[i], tip) IN
         IF IsSome(res) THEN Some(Append(Unwrap(res), block_tree.root))
         ELSE get_chain_with_tip_reverse_children(block_tree, i + 1, tip)

get_chain_with_tip_reverse(block_tree, tip) ==
    IF block_hash(block_tree.root) = tip THEN Some(<<block_tree.root>>)
    ELSE get_chain_with_tip_reverse_children(block_tree, 1, tip)

\* get_chain_with_tip without chain.reverse().
get_chain_with_tip_unreversed(block_tree, tip) ==
    LET rev == get_chain_with_tip_reverse(block_tree, tip) IN
    IF rev = None THEN None
    ELSE LET chain == Unwrap(rev) IN
         Some([first |-> chain[Len(chain)], successors |-> SubSeq(chain, 1, Len(chain) - 1)])

get_chain_with_tip(block_tree, tip) ==
    LET rev == get_chain_with_tip_reverse(block_tree, tip) IN
    IF rev = None THEN None
    ELSE LET chain == Unwrap(rev)
             first == chain[Len(chain)]
             rest  == SubSeq(chain, 1, Len(chain) - 1)
         IN Some([first |-> first, successors |-> Reverse(rest)])

\* depth without the edge to the child: max(depth(child), max_child_depth).
depth_forgets_edge(block_tree) == 0

\* depth counting the blocks of the longest path instead of its edges.
RECURSIVE depth_counts_blocks(_)
depth_counts_blocks(block_tree) ==
    1 + SetMax({0} \cup {depth_counts_blocks(block_tree.children[i]) :
                            i \in 1..Len(block_tree.children)})

RECURSIVE depth(_)
RECURSIVE depth_children(_, _, _)
\* The loop of depth without cmp::max: the depth of the last child is kept.
RECURSIVE depth_children_overwrites(_, _, _)
depth_children_overwrites(children, i, max_child_depth) ==
    IF i > Len(children) THEN max_child_depth
    ELSE depth_children_overwrites(children, i + 1, 1 + depth(children[i]))

depth_children(children, i, max_child_depth) ==
    IF i > Len(children) THEN max_child_depth
    ELSE depth_children(children, i + 1,
                        Max(1 + depth(children[i]), max_child_depth))

depth(block_tree) ==
    IF block_tree.children = <<>> THEN 0
    ELSE depth_children(block_tree.children, 1, 0)

\* ---------------------------------------------------------- unstable blocks
\* UnstableBlocks { tree, stability_threshold }.
UnstableBlocks_new(stability_threshold, anchor) ==
    [tree |-> BlockTree_new(anchor), stability_threshold |-> stability_threshold]

\* The deepest child with the child inserted last winning among equals.
RECURSIVE deepest_child_last_wins(_, _)
deepest_child_last_wins(children, n) ==
    IF n = 1 THEN 1
    ELSE LET best == deepest_child_last_wins(children, n - 1) IN
         IF depth(children[n]) >= depth(children[best]) THEN n ELSE best

\* The index of the deepest child among children 1..n; the child inserted first
\* wins among children of equal depth.
RECURSIVE deepest_child(_, _)
deepest_child(children, n) ==
    IF n = 1 THEN 1
    ELSE LET best == deepest_child(children, n - 1) IN
         IF depth(children[n]) > depth(children[best]) THEN n ELSE best

\* The depth of the deepest child other than child `win`; -1 when there is none.
RECURSIVE second_best_depth(_, _, _)
second_best_depth(children, win, n) ==
    IF n = 0 THEN -1
    ELSE IF n = win THEN second_best_depth(children, win, n - 1)
    ELSE Max(depth(children[n]), second_best_depth(children, win, n - 1))

\* The child of the root that makes the root stable, if any.
get_stable_child(blocks) ==
    LET children == blocks.tree.children IN
    IF children = <<>> THEN None
    ELSE LET win == deepest_child(children, Len(children))
             second == second_best_depth(children, win, Len(children))
         IN IF depth(children[win]) - second >= blocks.stability_threshold
            THEN Some(win)
            ELSE None

peek(blocks) ==
    IF IsSome(get_stable_child(blocks)) THEN Some(blocks.tree.root) ELSE None

\* pop: the unstable blocks after the call and the Option<Block> it returns.
pop(blocks, expected_height) ==
    LET stable_child == get_stable_child(blocks) IN
    IF IsSome(stable_child)
    THEN [blocks |-> [blocks EXCEPT !.tree = blocks.tree.children[Unwrap(stable_child)]],
          popped |-> Some(blocks.tree.root)]
    ELSE [blocks |-> blocks, popped |-> None]

push(blocks, block) ==
    LET r == extend(blocks.tree, block) IN
    [blocks |-> [blocks EXCEPT !.tree = r.tree], result |-> r.result]

\* The first of the longest chains of blockchains(tree).
RECURSIVE longest_chain(_, _)
longest_chain(chains, n) ==
    IF n = 1 THEN chains[1]
    ELSE LET best == longest_chain(chains, n - 1) IN
         IF BlockChain_len(chains[n]) > BlockChain_len(best) THEN chains[n] ELSE best

get_main_chain(blocks) ==
    LET chains == blockchains(blocks.tree) IN longest_chain(chains, Len(chains))

\* ------------------------------------------------------------ transactions
\* A small shard that takes scripts one byte longer.
TX_OUT_SCRIPT_MAX_SIZE_SMALL_plus_one == 25 + 1

\* The maximum size in bytes of a script for it to be considered "small".
TX_OUT_SCRIPT_MAX_SIZE_SMALL == 25

\* The maximum size in bytes of a script for it to be considered "medium".
TX_OUT_SCRIPT_MAX_SIZE_MEDIUM == 201

\* Script lengths on both sides of the two shard boundaries.
ScriptLens == <<TX_OUT_SCRIPT_MAX_SIZE_SMALL, TX_OUT_SCRIPT_MAX_SIZE_SMALL + 1,
                TX_OUT_SCRIPT_MAX_SIZE_MEDIUM, TX_OUT_SCRIPT_MAX_SIZE_MEDIUM + 1>>

\* What the address derivation yields for a script: one of two addresses, or
\* nothing.
Addresses == <<Some("A1"), Some("A2"), None>>

OutPoint(txid, vout) == [txid |-> txid, vout |-> vout]

\* A script is its length and the address the derivation routine yields for it.
TxOut(n) ==
    [script |-> [len |-> ScriptLens[(n % 4) + 1], address |-> Addresses[(n % 3) + 1]],
     value |-> 50]

address_from_script(script) == script.address

\* The outpoint of the input of a coinbase transaction: no output has it.
OutPoint_null == OutPoint(<<ZeroHash, 0>>, 0 - 1)

\* The coinbase transaction of a block: one input, the null outpoint, which
\* is not looked up; two outputs, and a third in the genesis block.
coinbase_tx(block) ==
    [txid |-> <<block.hash, 0>>, is_coinbase |-> TRUE, input |-> <<OutPoint_null>>,
     output |-> <<TxOut(block.hash), TxOut(block.hash + 1)>>
                \o IF block.hash = GenesisHash THEN <<TxOut(block.hash + 2)>> ELSE <<>>]

\* The blocks whose second transaction refers to an output that no
\* transaction creates: those built two hashes after their predecessor.
has_missing_input(block) == block.hash - block.prev_blockhash = 2

\* The second transaction of a block spends output 0 of the coinbase of the
\* block's predecessor and output 1 of the coinbase of its own block; in a
\* block with a missing input the first of the two is output 1 of the second
\* transaction of the predecessor, which does not exist.
spend_tx(block) ==
    [txid |-> <<block.hash, 1>>, is_coinbase |-> FALSE,
     input |-> <<IF has_missing_input(block)
                 THEN OutPoint(<<block.prev_blockhash, 1>>, 1)
                 ELSE OutPoint(<<block.prev_blockhash, 0>>, 0),
                 OutPoint(<<block.hash, 0>>, 1)>>,
     output |-> <<TxOut(block.hash + 2)>>]

Txs(block) ==
    IF block = genesis_block THEN <<coinbase_tx(block)>>
    ELSE <<coinbase_tx(block), spend_tx(block)>>

\* ----------------------------------------------------------------- UTXO set
EmptyMap == [x \in {} |-> None]

MapInsert(m, k, v) == [x \in DOMAIN m \cup {k} |-> IF x = k THEN v ELSE m[x]]

MapRemove(m, k) == [x \in DOMAIN m \ {k} |-> m[x]]

Stats_default == [num_rounds |-> 0, ins |-> 0, outs |-> 0]

UtxoSet_new ==
    [small_utxos |-> EmptyMap, medium_utxos |-> EmptyMap, large_utxos |-> EmptyMap,
     address_utxos |-> {}, next_height |-> 0, ingesting_block |-> None]

\* The shard an output belongs to.
shard_of(output) ==
    IF output.script.len <= TX_OUT_SCRIPT_MAX_SIZE_SMALL THEN "small_utxos"
    ELSE IF output.script.len <= TX_OUT_SCRIPT_MAX_SIZE_MEDIUM THEN "medium_utxos"
    ELSE "large_utxos"

\* Lookup of an outpoint: the shards are probed in the order small, medium, large.
get_utxo(utxos, outpoint) ==
    IF outpoint \in DOMAIN utxos.small_utxos
    THEN Some([shard |-> "small_utxos", entry |-> utxos.small_utxos[outpoint]])
    ELSE IF outpoint \in DOMAIN utxos.medium_utxos
    THEN Some([shard |-> "medium_utxos", entry |-> utxos.medium_utxos[outpoint]])
    ELSE IF outpoint \in DOMAIN utxos.large_utxos
    THEN Some([shard |-> "large_utxos", entry |-> utxos.large_utxos[outpoint]])
    ELSE None

\* The entries of the inverse index to drop with an outpoint held at a height.
address_entries(output, height, outpoint) ==
    LET a == address_from_script(output.script) IN
    IF IsSome(a) THEN {<<Unwrap(a), height, outpoint>>} ELSE {}

\* An input step that leaves the entry of the inverse index behind.
remove_utxo_keeps_index(utxos, outpoint) ==
    LET found == Unwrap(get_utxo(utxos, outpoint)) IN
    [utxos EXCEPT ![found.shard] = MapRemove(@, outpoint)]

\* Input step: the referenced outpoint leaves its shard and the inverse index.
\* The outpoint is in a shard (a missing outpoint is fatal, see ingest_run).
remove_utxo(utxos, outpoint) ==
    LET found == Unwrap(get_utxo(utxos, outpoint))
        entry == found.entry
    IN [utxos EXCEPT
          ![found.shard] = MapRemove(@, outpoint),
          !.address_utxos = @ \ address_entries(entry.output, entry.height, outpoint)]

\* An output step that stores height 0 with every output.
insert_utxo_without_height(utxos, outpoint, output) ==
    [utxos EXCEPT
       ![shard_of(output)] = MapInsert(@, outpoint, [output |-> output, height |-> 0]),
       !.address_utxos = @ \cup address_entries(output, 0, outpoint)]

\* Output step: the output enters the shard of its script length with the
\* height of its block and, when an address is derivable, the inverse index.
insert_utxo(utxos, outpoint, output) ==
    [utxos EXCEPT
       ![shard_of(output)] =
           MapInsert(@, outpoint, [output |-> output, height |-> utxos.next_height]),
       !.address_utxos = @ \cup address_entries(output, utxos.next_height, outpoint)]

\* An input step that skips an outpoint it does not find.
input_step_skips_missing(utxos, outpoint) ==
    IF get_utxo(utxos, outpoint) = None THEN Some(utxos)
    ELSE Some(remove_utxo(utxos, outpoint))

\* The input step of the ingestion: the UTXO set without the outpoint, or
\* None (fatal) when no shard holds the outpoint.
input_step(utxos, outpoint) ==
    IF get_utxo(utxos, outpoint) = None THEN None
    ELSE Some(remove_utxo(utxos, outpoint))

\* PartialIngestionState { block, tx_index, io_index, phase } and the stats of
\* the ingestion so far.
IngestingBlock_new(block) ==
    [block |-> block, tx_index |-> 1, io_index |-> 1, phase |-> "Inputs",
     stats |-> Stats_default]

\* The performance counter never exceeds the threshold.
NoLimit == 0 - 1

Budgets == (1..MaxBudget) \cup {NoLimit}

\* The steps of the block being ingested, from the stored position on, while
\* the performance counter allows (budget steps).  Yields the UTXO set
\* after, the budget left, Done / Paused / Fatal, and the steps it executed.
RECURSIVE ingest_run(_, _)
ingest_run(utxos, budget) ==
    LET ib == Unwrap(utxos.ingesting_block)
        txs == Txs(ib.block)
        at(pos) == [utxos EXCEPT !.ingesting_block = Some(pos)]
        executed(r) ==
            [r EXCEPT !.steps = <<[tx_index |-> ib.tx_index, phase |-> ib.phase,
                                   io_index |-> ib.io_index]>> \o @]
    IN
    IF ib.tx_index > Len(txs)
    THEN [utxos |-> [utxos EXCEPT !.next_height = @ + 1, !.ingesting_block = None],
          slicing |-> "Done", hash |-> block_hash(ib.block), stats |-> ib.stats,
          budget |-> budget, steps |-> <<>>]
    ELSE LET tx == txs[ib.tx_index] IN
    IF ib.phase = "Inputs"
    THEN IF tx.is_coinbase \/ ib.io_index > Len(tx.input)
         THEN ingest_run(at([ib EXCEPT !.phase = "Outputs", !.io_index = 1]), budget)
         ELSE IF budget = 0
         THEN [utxos |-> utxos, slicing |-> "Paused", budget |-> budget, steps |-> <<>>]
         ELSE IF input_step(utxos, tx.input[ib.io_index]) = None
         THEN [utxos |-> utxos, slicing |-> "Fatal", budget |-> budget, steps |-> <<>>]
         ELSE executed(ingest_run(
                [Unwrap(input_step(utxos, tx.input[ib.io_index])) EXCEPT
                   !.ingesting_block =
                       Some([ib EXCEPT !.io_index = @ + 1, !.stats.ins = @ + 1])],
                budget - 1))
    ELSE IF ib.io_index > Len(tx.output)
         THEN ingest_run(at([ib EXCEPT !.tx_index = @ + 1, !.phase = "Inputs",
                                       !.io_index = 1]), budget)
         ELSE IF budget = 0
         THEN [utxos |-> utxos, slicing |-> "Paused", budget |-> budget, steps |-> <<>>]
         ELSE executed(ingest_run(
                [insert_utxo(utxos, OutPoint(tx.txid, ib.io_index - 1),
                             tx.output[ib.io_index]) EXCEPT
                   !.ingesting_block =
                       Some([ib EXCEPT !.io_index = @ + 1, !.stats.outs = @ + 1])],
                budget - 1))

\* A new round of the ingestion starts.
new_round(utxos) ==
    [utxos EXCEPT !.ingesting_block = Some([Unwrap(@) EXCEPT !.stats.num_rounds = @ + 1])]

ingest_block(utxos, block, budget) ==
    ingest_run(new_round([utxos EXCEPT !.ingesting_block = Some(IngestingBlock_new(block))]),
               budget)

\* A resumption that starts one step after the stored position.
ingest_block_continue_skips_step(utxos, budget) ==
    IF utxos.ingesting_block = None THEN None
    ELSE Some(ingest_run(
            [new_round(utxos) EXCEPT
                !.ingesting_block = Some([Unwrap(@) EXCEPT !.io_index = @ + 1])],
            budget))

\* None when no block is partially ingested.
ingest_block_continue(utxos, budget) ==
    IF utxos.ingesting_block = None THEN None
    ELSE Some(ingest_run(new_round(utxos), budget))

\* ----------------------------------------------------------- state envelope
\* The fields of State the ingestion reads and writes, with the history of the
\* ingestions (hist: the UTXO set when ingest_block was last called, and the
\* last ingestion that reached Done, the number of ingestions that reached
\* Done, the steps executed on the block being ingested) and the message of
\* the panic that ended the program, if any.
State_new(stability_threshold, genesis) ==
    [utxos |-> UtxoSet_new,
     unstable_blocks |-> UnstableBlocks_new(stability_threshold, genesis),
     stable_block_headers |-> {},
     block_ingestion_stats |-> Stats_default,
     hist |-> [started |-> UtxoSet_new, done |-> None, num_done |-> 0,
               steps |-> <<>>],
     panic |-> None]

\* The height of the latest stable block instead of the next height.
stable_height_latest_block(state) == state.utxos.next_height - 1

stable_height(state) == state.utxos.next_height

\* main_chain_height without the - 1.
main_chain_height_counts_blocks(state) ==
    BlockChain_len(get_main_chain(state.unstable_blocks)) + state.utxos.next_height

main_chain_height(state) ==
    BlockChain_len(get_main_chain(state.unstable_blocks)) + state.utxos.next_height - 1

\* The walk of get_utxos over the transactions txs[t..] of an unstable block
\* at a height: an input marks its outpoint spent when the stable entries or
\* the additions so far hold it, an output to the address is an addition.
RECURSIVE apply_txs(_, _, _, _, _, _)
apply_txs(view, stable, address, txs, t, height) ==
    IF t > Len(txs) THEN view
    ELSE LET tx == txs[t]
             known == {x.outpoint : x \in stable \cup view.added}
             spent == {tx.input[j] : j \in 1..Len(tx.input)} \cap known
             added == {[outpoint |-> OutPoint(tx.txid, v - 1), output |-> tx.output[v],
                        height |-> height] :
                          v \in {w \in 1..Len(tx.output) :
                                    address_from_script(tx.output[w].script) = Some(address)}}
         IN apply_txs([added |-> view.added \cup added, spent |-> view.spent \cup spent],
                      stable, address, txs, t + 1, height)

\* The walk over the blocks chain[i..] of the unstable main chain, the first
\* at the height given.
RECURSIVE apply_blocks(_, _, _, _, _, _)
apply_blocks(view, stable, address, chain, i, height) ==
    IF i > Len(chain) THEN view
    ELSE apply_blocks(apply_txs(view, stable, address, Txs(chain[i]), 1, height),
                      stable, address, chain, i + 1, height + 1)

\* get_utxos: the (outpoint, output, height) it yields for an address, those
\* from the stable set and those from the unstable main chain.
get_utxos(state, address) ==
    LET stable == {[outpoint |-> e[3],
                    output |-> Unwrap(get_utxo(state.utxos, e[3])).entry.output,
                    height |-> e[2]] :
                      e \in {x \in state.utxos.address_utxos : x[1] = address}}
        view == apply_blocks([added |-> {}, spent |-> {}], stable, address,
                             into_chain(get_main_chain(state.unstable_blocks)), 1,
                             state.utxos.next_height)
    IN [stable |-> {x \in stable : x.outpoint \notin view.spent},
        unstable |-> {x \in view.added : x.outpoint \notin view.spent}]

\* The header validation of insert_block: the header must extend a block of
\* the unstable tree, and pass the checks of validate_header (header_valid).
validate_header(state, block, header_valid) ==
    IF get_chain_with_tip(state.unstable_blocks.tree, block.prev_blockhash) = None
    THEN "PrevHeaderNotFound"
    ELSE IF header_valid THEN "Ok" ELSE "InvalidHeader"

\* insert_block: the state after the call and the Result it returns; the
\* expect() on push panics when push fails.
insert_block(state, block, header_valid) ==
    LET valid == validate_header(state, block, header_valid) IN
    IF valid # "Ok" THEN [state |-> state, result |-> valid]
    ELSE LET pushed == push(state.unstable_blocks, block) IN
         IF pushed.result.ok
         THEN [state |-> [state EXCEPT !.unstable_blocks = pushed.blocks], result |-> "Ok"]
         ELSE [state |-> [state EXCEPT
                            !.panic = Some("Inserting a block with a validated header must succeed.")],
               result |-> "panic"]

\* pop_block: pops the stable block; panics unless the popped block is the
\* ingested one.
pop_block(state, ingested_block_hash) ==
    LET r == pop(state.unstable_blocks, stable_height(state)) IN
    IF r.popped = None \/ block_hash(Unwrap(r.popped)) # ingested_block_hash
    THEN [state EXCEPT !.panic = Some("pop_block: assertion failed")]
    ELSE [state EXCEPT !.unstable_blocks = r.blocks]

\* The Done arm without the assignment of the stats.
ingestion_done_keeps_stats(state, r, block) ==
    pop_block([state EXCEPT
                 !.utxos = r.utxos,
                 !.hist.done = Some([block |-> block, before |-> state.hist.started,
                                     after |-> r.utxos, stats |-> r.stats,
                                     steps |-> state.hist.steps \o r.steps]),
                 !.hist.num_done = @ + 1,
                 !.hist.steps = <<>>],
              r.hash)

\* The Done arm of both matches: the stats are stored and the block is popped.
ingestion_done(state, r, block) ==
    pop_block([state EXCEPT
                 !.utxos = r.utxos,
                 !.block_ingestion_stats = r.stats,
                 !.hist.done = Some([block |-> block, before |-> state.hist.started,
                                     after |-> r.utxos, stats |-> r.stats,
                                     steps |-> state.hist.steps \o r.steps]),
                 !.hist.num_done = @ + 1,
                 !.hist.steps = <<>>],
              r.hash)

\* The loop with `if let` for `while let`: at most one new block per call.
ingest_stable_loop_once(state, budget) ==
    LET new_stable_block == peek(state.unstable_blocks) IN
    IF IsSome(state.panic) \/ new_stable_block = None THEN state
    ELSE LET block == Unwrap(new_stable_block)
             stored == [state EXCEPT
                          !.stable_block_headers =
                              @ \cup {<<block, state.utxos.next_height>>},
                          !.hist.started = state.utxos]
             r == ingest_block(stored.utxos, block, budget)
         IN IF r.slicing = "Paused"
            THEN [stored EXCEPT !.utxos = r.utxos, !.hist.steps = @ \o r.steps]
            ELSE IF r.slicing = "Fatal"
            THEN [stored EXCEPT !.utxos = r.utxos, !.hist.steps = @ \o r.steps,
                                !.panic = Some("missing input")]
            ELSE ingestion_done(stored, r, block)

\* The while loop over the stable blocks; yields the state at return.
RECURSIVE ingest_stable_loop(_, _)
ingest_stable_loop(state, budget) ==
    LET new_stable_block == peek(state.unstable_blocks) IN
    IF IsSome(state.panic) \/ new_stable_block = None THEN state
    ELSE LET block == Unwrap(new_stable_block)
             stored == [state EXCEPT
                          !.stable_block_headers =
                              @ \cup {<<block, state.utxos.next_height>>},
                          !.hist.started = state.utxos]
             r == ingest_block(stored.utxos, block, budget)
         IN IF r.slicing = "Paused"
            THEN [stored EXCEPT !.utxos = r.utxos, !.hist.steps = @ \o r.steps]
            ELSE IF r.slicing = "Fatal"
            THEN [stored EXCEPT !.utxos = r.utxos, !.hist.steps = @ \o r.steps,
                                !.panic = Some("missing input")]
            ELSE ingest_stable_loop(ingestion_done(stored, r, block), r.budget)

\* ingest_stable_blocks_into_utxoset without the call of ingest_block_continue:
\* the block at the root is ingested from its first step in every call.
ingest_stable_blocks_into_utxoset_restarts(state, budget) ==
    LET prev_state == <<state.utxos.next_height, state.utxos.ingesting_block>>
        s == ingest_stable_loop(state, budget)
    IN [state |-> s,
        result |-> prev_state # <<s.utxos.next_height, s.utxos.ingesting_block>>]

\* has_state_changed comparing next_height only.
ingest_stable_blocks_into_utxoset_height_only(state, budget) ==
    LET cont == ingest_block_continue(state.utxos, budget)
        s == IF cont = None THEN ingest_stable_loop(state, budget)
             ELSE LET r == Unwrap(cont) IN
                  IF r.slicing = "Paused"
                  THEN [state EXCEPT !.utxos = r.utxos, !.hist.steps = @ \o r.steps]
                  ELSE IF r.slicing = "Fatal"
                  THEN [state EXCEPT !.utxos = r.utxos, !.hist.steps = @ \o r.steps,
                                     !.panic = Some("missing input")]
                  ELSE ingest_stable_loop(
                          ingestion_done(state, r, Unwrap(state.utxos.ingesting_block).block),
                          r.budget)
    IN [state |-> s, result |-> state.utxos.next_height # s.utxos.next_height]

\* ingest_stable_blocks_into_utxoset: the state after the call and the bool
\* it returns.
ingest_stable_blocks_into_utxoset(state, budget) ==
    LET prev_state == <<state.utxos.next_height, state.utxos.ingesting_block>>
        has_state_changed(s) ==
            prev_state # <<s.utxos.next_height, s.utxos.ingesting_block>>
        ret(s) == [state |-> s, result |-> has_state_changed(s)]
        cont == ingest_block_continue(state.utxos, budget)
    IN IF cont = None THEN ret(ingest_stable_loop(state, budget))
       ELSE LET r == Unwrap(cont) IN
            IF r.slicing = "Paused"
            THEN ret([state EXCEPT !.utxos = r.utxos, !.hist.steps = @ \o r.steps])
            ELSE IF r.slicing = "Fatal"
            THEN ret([state EXCEPT !.utxos = r.utxos, !.hist.steps = @ \o r.steps,
                                   !.panic = Some("missing input")])
            ELSE ret(ingest_stable_loop(
                        ingestion_done(state, r, Unwrap(state.utxos.ingesting_block).block),
                        r.budget))

\* ------------------------------------------------------------ serialization
\* The snapshot of a State is a sequence of tokens of a self-describing
\* format: field names, lengths, byte strings and values.

\* Block::consensus_encode: the header fields, the previous hash first.
consensus_encode(block) == <<block.prev_blockhash, block.hash>>

consensus_decode(bytes) == [hash |-> bytes[2], prev_blockhash |-> bytes[1]]

serialize_block(block) == <<"bytes", consensus_encode(block)>>

deserialize_block(tokens) == consensus_decode(tokens[2])

RECURSIVE BlockTree_serialize(_)
RECURSIVE serialize_children(_, _)
\* A tree written with the children of every node in reverse order.
RECURSIVE BlockTree_serialize_children_reversed(_)
BlockTree_serialize_children_reversed(block_tree) ==
    <<"map", 2, "root">> \o serialize_block(block_tree.root)
        \o <<"children", "array", Len(block_tree.children)>>
        \o serialize_children(Reverse(block_tree.children), 1)

\* The elements i.. of a Vec<BlockTree>, one after the other.
serialize_children(children, i) ==
    IF i > Len(children) THEN <<>>
    ELSE BlockTree_serialize(children[i]) \o serialize_children(children, i + 1)

\* derive(Serialize) of BlockTree: the root as a byte string, then the
\* children as an array in the order of the Vec.
BlockTree_serialize(block_tree) ==
    <<"map", 2, "root">> \o serialize_block(block_tree.root)
        \o <<"children", "array", Len(block_tree.children)>>
        \o serialize_children(block_tree.children, 1)

\* derive(Deserialize) of BlockTree: the tree read from the front of the
\* tokens and the tokens that follow it.
RECURSIVE BlockTree_deserialize(_)
RECURSIVE deserialize_children(_, _, _)
deserialize_children(tokens, n, children) ==
    IF n = 0 THEN [children |-> children, rest |-> tokens]
    ELSE LET child == BlockTree_deserialize(tokens) IN
         deserialize_children(child.rest, n - 1, Append(children, child.tree))

BlockTree_deserialize(tokens) ==
    LET read == deserialize_children(SubSeq(tokens, 9, Len(tokens)), tokens[8], <<>>) IN
    [tree |-> [root |-> deserialize_block(SubSeq(tokens, 4, 5)),
               children |-> read.children],
     rest |-> read.rest]

\* An ordered map written as its key-value pairs, and read back.
map_serialize(m) == {<<k, m[k]>> : k \in DOMAIN m}

map_deserialize(pairs) ==
    [k \in {pair[1] : pair \in pairs} |-> (CHOOSE pair \in pairs : pair[1] = k)[2]]

\* The UTXO set: the three shards, the inverse index, next_height and the
\* position of the partial ingestion as a plain record.
UtxoSet_serialize(utxos) ==
    [small_utxos |-> map_serialize(utxos.small_utxos),
     medium_utxos |-> map_serialize(utxos.medium_utxos),
     large_utxos |-> map_serialize(utxos.large_utxos),
     address_utxos |-> utxos.address_utxos,
     next_height |-> utxos.next_height,
     ingesting_block |->
         IF utxos.ingesting_block = None THEN <<"null">>
         ELSE LET ib == Unwrap(utxos.ingesting_block) IN
              <<"map", serialize_block(ib.block), ib.tx_index, ib.io_index, ib.phase,
                ib.stats>>]

UtxoSet_deserialize(value) ==
    [small_utxos |-> map_deserialize(value.small_utxos),
     medium_utxos |-> map_deserialize(value.medium_utxos),
     large_utxos |-> map_deserialize(value.large_utxos),
     address_utxos |-> value.address_utxos,
     next_height |-> value.next_height,
     ingesting_block |->
         IF Len(value.ingesting_block) = 1 THEN None
         ELSE Some([block |-> deserialize_block(value.ingesting_block[2]),
                    tx_index |-> value.ingesting_block[3],
                    io_index |-> value.ingesting_block[4],
                    phase |-> value.ingesting_block[5],
                    stats |-> value.ingesting_block[6]])]

\* derive(Serialize) of State: the fields in the order of the struct.
State_serialize(state) ==
    <<"utxos", UtxoSet_serialize(state.utxos),
      "unstable_blocks", state.unstable_blocks.stability_threshold>>
        \o BlockTree_serialize(state.unstable_blocks.tree)
        \o <<"stable_block_headers",
              {<<serialize_block(e[1]), e[2]>> : e \in state.stable_block_headers},
              "metrics", state.block_ingestion_stats>>

\* derive(Deserialize) of State; the history is not part of the State.
State_deserialize(tokens, hist, panic) ==
    LET read == BlockTree_deserialize(SubSeq(tokens, 5, Len(tokens))) IN
    [utxos |-> UtxoSet_deserialize(tokens[2]),
     unstable_blocks |-> [tree |-> read.tree, stability_threshold |-> tokens[4]],
     stable_block_headers |-> {<<deserialize_block(e[1]), e[2]>> : e \in read.rest[2]},
     block_ingestion_stats |-> read.rest[4],
     hist |-> hist,
     panic |-> panic]

\* ------------------------------------------------------------- state machine
VARIABLES
    utxos,                  \* State.utxos
    unstable_blocks,        \* State.unstable_blocks
    stable_block_headers,   \* State.stable_block_headers
    block_ingestion_stats,  \* State.metrics.block_ingestion_stats
    hist,                   \* history of the ingestions
    panic,                  \* the panic that ended the program, if any
    returned                \* the last call and what it returned

vars == <<utxos, unstable_blocks, stable_block_headers, block_ingestion_stats,
          hist, panic, returned>>

\* The State the variables hold.
TheState ==
    [utxos |-> utxos, unstable_blocks |-> unstable_blocks,
     stable_block_headers |-> stable_block_headers,
     block_ingestion_stats |-> block_ingestion_stats, hist |-> hist,
     panic |-> panic]

Becomes(state) ==
    /\ utxos' = state.utxos
    /\ unstable_blocks' = state.unstable_blocks
    /\ stable_block_headers' = state.stable_block_headers
    /\ block_ingestion_stats' = state.block_ingestion_stats
    /\ hist' = state.hist
    /\ panic' = state.panic

\* State::new with any stability threshold and the genesis block.
Init ==
    /\ \E k \in 0..MaxThreshold :
          /\ utxos = State_new(k, genesis_block).utxos
          /\ unstable_blocks = State_new(k, genesis_block).unstable_blocks
          /\ stable_block_headers = State_new(k, genesis_block).stable_block_headers
          /\ block_ingestion_stats = State_new(k, genesis_block).block_ingestion_stats
          /\ hist = State_new(k, genesis_block).hist
          /\ panic = State_new(k, genesis_block).panic
    /\ returned = [op |-> "new", result |-> "Ok"]

\* What a call returned: None when it panicked.
Returned(op, state, result) ==
    [op |-> op, result |-> IF IsSome(state.panic) THEN None ELSE Some(result)]

InsertBlock(block, header_valid) ==
    /\ panic = None
    /\ LET r == insert_block(TheState, block, header_valid) IN
       /\ Becomes(r.state)
       /\ returned' = Returned("insert_block", r.state, r.result)

IngestStableBlocks(budget) ==
    /\ panic = None
    /\ LET r == ingest_stable_blocks_into_utxoset(TheState, budget) IN
       /\ Becomes(r.state)
       /\ returned' = Returned("ingest_stable_blocks_into_utxoset", r.state, r.result)

\* The blocks handed to insert_block: the genesis block again, or any other.
Next ==
    \/ \E block \in Blocks \cup {genesis_block}, header_valid \in BOOLEAN :
          InsertBlock(block, header_valid)
    \/ \E budget \in Budgets : IngestStableBlocks(budget)

Spec == Init /\ [][Next]_vars

\* The State, without what the last call returned.
state_vars == <<utxos, unstable_blocks, stable_block_headers, block_ingestion_stats,
                hist, panic>>

\* The two calls again, for a caller that keeps calling
\* ingest_stable_blocks_into_utxoset: of insert_block the call is recorded, of
\* ingest_stable_blocks_into_utxoset the call and the bool it returned.
LiveInsertBlock(block, header_valid) ==
    /\ panic = None
    /\ \E r \in {insert_block(TheState, block, header_valid)} :
          /\ Becomes(r.state)
          /\ returned' = [op |-> "insert_block"]

LiveIngestStableBlocks(budget) ==
    /\ panic = None
    /\ \E r \in {ingest_stable_blocks_into_utxoset(TheState, budget)} :
          /\ Becomes(r.state)
          /\ returned' = [op |-> "ingest_stable_blocks_into_utxoset",
                          has_state_changed |-> r.result]

InsertBlockAny ==
    \E block \in Blocks \cup {genesis_block}, header_valid \in BOOLEAN :
        LiveInsertBlock(block, header_valid)

IngestStableBlocksAny == \E budget \in Budgets : LiveIngestStableBlocks(budget)

LiveNext ==
    \/ InsertBlockAny
    \/ IngestStableBlocksAny

\* A call of ingest_stable_blocks_into_utxoset has work to do: a block is
\* partially ingested or the root is stable.
CanIngest ==
    /\ panic = None
    /\ utxos.ingesting_block # None \/ peek(unstable_blocks) # None

\* The step of such a call, as what the last call returned shows it.
IngestStableBlocksCalled ==
    /\ CanIngest
    /\ returned' \in {[op |-> "ingest_stable_blocks_into_utxoset", has_state_changed |-> b] :
                         b \in BOOLEAN}

\* The caller keeps calling ingest_stable_blocks_into_utxoset, the performance
\* counter reset at every call: while a call has work to do, a call is not put
\* off for ever.
LiveSpec == Init /\ [][LiveNext]_vars /\ WF_returned(IngestStableBlocksCalled)

\* ------------------------------------------------- the block tree on its own
\* The operations of blocktree and unstable_blocks called directly, as their
\* tests call them, on a tree of one more block than the state machine above;
\* returned records the call, its arguments and the tree it was made on.
TreeBlocks == BlocksUpTo(NumBlocks + 1) \cup {genesis_block}

TreeFrame ==
    UNCHANGED <<utxos, stable_block_headers, block_ingestion_stats, hist, panic>>

Extend(block) ==
    /\ LET r == extend(unstable_blocks.tree, block) IN
       /\ unstable_blocks' = [unstable_blocks EXCEPT !.tree = r.tree]
       /\ returned' = [op |-> "extend", block |-> block, before |-> unstable_blocks,
                       result |-> r.result]
    /\ TreeFrame

Peek ==
    /\ returned' = [op |-> "peek", before |-> unstable_blocks,
                    result |-> peek(unstable_blocks)]
    /\ UNCHANGED unstable_blocks
    /\ TreeFrame

Pop ==
    /\ LET r == pop(unstable_blocks, utxos.next_height) IN
       /\ unstable_blocks' = r.blocks
       /\ returned' = [op |-> "pop", before |-> unstable_blocks, result |-> r.popped]
    /\ TreeFrame

GetMainChain ==
    /\ returned' = [op |-> "get_main_chain", before |-> unstable_blocks,
                    result |-> get_main_chain(unstable_blocks)]
    /\ UNCHANGED unstable_blocks
    /\ TreeFrame

GetChainWithTip(tip) ==
    /\ returned' = [op |-> "get_chain_with_tip", tip |-> tip, before |-> unstable_blocks,
                    result |-> get_chain_with_tip(unstable_blocks.tree, tip)]
    /\ UNCHANGED unstable_blocks
    /\ TreeFrame

Blockchains ==
    /\ returned' = [op |-> "blockchains", before |-> unstable_blocks,
                    result |-> blockchains(unstable_blocks.tree)]
    /\ UNCHANGED unstable_blocks
    /\ TreeFrame

Depth ==
    /\ returned' = [op |-> "depth", before |-> unstable_blocks,
                    result |-> depth(unstable_blocks.tree)]
    /\ UNCHANGED unstable_blocks
    /\ TreeFrame

TreeNext ==
    \/ \E block \in TreeBlocks : Extend(block)
    \/ Peek
    \/ Pop
    \/ GetMainChain
    \/ Blockchains
    \/ Depth
    \/ \E tip \in ZeroHash..(NumBlocks + 1) : GetChainWithTip(tip)

TreeSpec == Init /\ [][TreeNext]_vars

\* ----------------------------------------------------- the state with queries
\* insert_block and ingest_stable_blocks_into_utxoset with get_utxos called
\* between them, for either address.
QueryAddresses == {"A1", "A2"}

GetUtxos(address) ==
    /\ panic = None
    /\ returned' = [op |-> "get_utxos", address |-> address,
                    result |-> Some(get_utxos(TheState, address))]
    /\ UNCHANGED <<utxos, unstable_blocks, stable_block_headers, block_ingestion_stats,
                   hist, panic>>

QueryNext ==
    \/ \E block \in Blocks \cup {genesis_block}, header_valid \in BOOLEAN :
          InsertBlock(block, header_valid)
    \/ \E budget \in Budgets : IngestStableBlocks(budget)
    \/ \E address \in QueryAddresses : GetUtxos(address)

QuerySpec == Init /\ [][QueryNext]_vars

\* ---------------------------------------------------- the state with restores
\* insert_block and ingest_stable_blocks_into_utxoset with the State written
\* to a snapshot and read back between them.
Restore ==
    /\ panic = None
    /\ Becomes(State_deserialize(State_serialize(TheState), hist, panic))
    /\ returned' = [op |-> "restore", before |-> TheState]

SnapshotNext ==
    \/ \E block \in Blocks \cup {genesis_block}, header_valid \in BOOLEAN :
          InsertBlock(block, header_valid)
    \/ \E budget \in Budgets : IngestStableBlocks(budget)
    \/ Restore

SnapshotSpec == Init /\ [][SnapshotNext]_vars

\* ------------------------------------------------ the tree, read as a set
\* The nodes of a tree, each named by its path: the child indices from the root.
RECURSIVE Paths(_)
Paths(t) ==
    {<<>>} \cup UNION {{<<i>> \o p : p \in Paths(t.children[i])} :
                          i \in 1..Len(t.children)}

RECURSIVE Sub(_, _)
Sub(t, p) == IF p = <<>> THEN t ELSE Sub(t.children[Head(p)], Tail(p))

NodeBlocks(t) == {Sub(t, p).root : p \in Paths(t)}

NodeHashes(t) == {b.hash : b \in NodeBlocks(t)}

LeafPaths(t) == {p \in Paths(t) : Sub(t, p).children = <<>>}

\* The number of edges of the longest path from the root to a leaf.
EdgeDepth(t) == SetMax({Len(p) : p \in Paths(t)})

\* The blocks on the way from the root to the node at path p.
BlocksAlong(t, p) == [i \in 1..(Len(p) + 1) |-> Sub(t, SubSeq(p, 1, i - 1)).root]

Front(p) == SubSeq(p, 1, Len(p) - 1)

\* The depth of the deepest child of the root other than child i; -1 when
\* child i is the only one.
OtherDepth(t, i) ==
    SetMax({-1} \cup {EdgeDepth(t.children[j]) : j \in (1..Len(t.children)) \ {i}})

\* Child i of the root satisfies the stabilization rule with threshold k.
Wins(t, k, i) == EdgeDepth(t.children[i]) - OtherDepth(t, i) >= k

Stabilizable(blocks) ==
    \E i \in 1..Len(blocks.tree.children) :
        Wins(blocks.tree, blocks.stability_threshold, i)

\* ------------------------------------------------------------------ claims
\* C1: however the ingestion of a block is cut into calls (ingest_block, then
\* any number of ingest_block_continue), once it is finished the three
\* shards, address_utxos and next_height are those of ingesting the same block
\* from the same start state in one uninterrupted call; and it is cut short by
\* a missing input only where the uninterrupted call is.
C1_TimeSlicingEquivalence ==
    /\ hist.done # None =>
          LET d == Unwrap(hist.done)
              one == ingest_block(d.before, d.block, NoLimit)
          IN /\ one.slicing = "Done"
             /\ d.after.small_utxos = one.utxos.small_utxos
             /\ d.after.medium_utxos = one.utxos.medium_utxos
             /\ d.after.large_utxos = one.utxos.large_utxos
             /\ d.after.address_utxos = one.utxos.address_utxos
             /\ d.after.next_height = one.utxos.next_height
    /\ panic = Some("missing input") =>
          ingest_block(hist.started, Unwrap(utxos.ingesting_block).block, NoLimit).slicing
              = "Fatal"

\* A block with inputs was ingested in four calls or more.
C1_Witness ==
    /\ hist.done # None
    /\ Unwrap(hist.done).block # genesis_block
    /\ Unwrap(hist.done).stats.num_rounds >= 4

\* The outpoints the shards hold, each with its shard entry.
Held(u) ==
    {[outpoint |-> o, entry |-> u.small_utxos[o]] : o \in DOMAIN u.small_utxos}
    \cup {[outpoint |-> o, entry |-> u.medium_utxos[o]] : o \in DOMAIN u.medium_utxos}
    \cup {[outpoint |-> o, entry |-> u.large_utxos[o]] : o \in DOMAIN u.large_utxos}

\* C2: in every reachable state, the states in which the ingestion is paused
\* between two steps included, address_utxos holds (A, h, outpoint) iff a
\* shard holds outpoint at height h with an output script of address A, and
\* holds exactly one entry for such an outpoint.
C2_AddressUtxoInvariant ==
    /\ utxos.address_utxos =
          {<<Unwrap(address_from_script(x.entry.output.script)), x.entry.height, x.outpoint>> :
              x \in {y \in Held(utxos) : IsSome(address_from_script(y.entry.output.script))}}
    /\ \A x \in Held(utxos) :
          Cardinality({e \in utxos.address_utxos : e[3] = x.outpoint}) =
              IF IsSome(address_from_script(x.entry.output.script)) THEN 1 ELSE 0

\* The ingestion is paused right after an input step that removed an output
\* with an address, with outputs of other addresses still held.
C2_Witness ==
    /\ utxos.ingesting_block # None
    /\ LET ib == Unwrap(utxos.ingesting_block) IN
       /\ ib.phase = "Inputs"
       /\ ib.io_index = 2
       /\ ib.stats.ins = 1
       /\ IsSome(address_from_script(
              coinbase_tx([hash |-> ib.block.prev_blockhash,
                           prev_blockhash |-> ZeroHash]).output[1].script))
    /\ Cardinality(utxos.address_utxos) >= 2

\* C3: peek returns the root of the unstable tree iff the root satisfies the
\* stabilization rule (some child c has depth(c) - depth(d) >= threshold, d
\* the deepest other child, a missing other child counting as depth -1), and
\* None in every other state, a root without children included.
C3_PeekIffStabilizable ==
    returned.op = "peek" =>
        returned.result = IF Stabilizable(returned.before)
                          THEN Some(returned.before.tree.root)
                          ELSE None

\* peek returned the root of a tree whose root has a losing child.
C3_Witness ==
    /\ returned.op = "peek"
    /\ returned.result # None
    /\ Len(returned.before.tree.children) >= 2
    /\ returned.before.stability_threshold >= 1

\* C4: pop returns the root iff the root is stabilizable; then the new tree is
\* exactly the subtree of a winning child, and the old root and every other
\* child with its descendants are gone; otherwise pop returns None and
\* nothing changes.
C4_PopPromotesWinner ==
    returned.op = "pop" =>
        LET before == returned.before
            t == before.tree
            k == before.stability_threshold
        IN IF Stabilizable(before)
           THEN /\ returned.result = Some(t.root)
                /\ unstable_blocks.stability_threshold = k
                /\ \E i \in 1..Len(t.children) :
                      /\ Wins(t, k, i)
                      /\ unstable_blocks.tree = t.children[i]
                      /\ \A j \in (1..Len(t.children)) \ {i} :
                            NodeBlocks(t.children[j]) \cap NodeBlocks(unstable_blocks.tree) = {}
                /\ t.root \notin NodeBlocks(unstable_blocks.tree)
           ELSE /\ returned.result = None
                /\ unstable_blocks = before

\* pop returned the root and dropped a losing child that had a child itself.
C4_Witness ==
    /\ returned.op = "pop"
    /\ returned.result # None
    /\ \E j \in 1..Len(returned.before.tree.children) :
          /\ returned.before.tree.children[j] # unstable_blocks.tree
          /\ returned.before.tree.children[j].children # <<>>

\* The first index at which two different paths of equal length differ.
FirstDiff(p, q) == CHOOSE j \in 1..Len(p) : p[j] # q[j] /\ \A i \in 1..(j - 1) : p[i] = q[i]

\* C5: the main chain is the longest root-to-leaf path; among paths of equal
\* length the one whose child at the divergence was inserted earlier; so
\* with leaves G->A, G->B it is [G, A], and it goes through B only once B's
\* branch is strictly longer.  main_chain_height counts it from next_height.
C5_MainChainLongestFirstInserted ==
    returned.op = "get_main_chain" =>
        LET t == returned.before.tree
            mc == into_chain(returned.result)
        IN /\ \E p \in LeafPaths(t) :
                 /\ mc = BlocksAlong(t, p)
                 /\ \A q \in LeafPaths(t) :
                       /\ Len(q) <= Len(p)
                       /\ (Len(q) = Len(p) /\ q # p) =>
                              p[FirstDiff(p, q)] < q[FirstDiff(p, q)]
           /\ (Len(t.children) = 2 /\ EdgeDepth(t) = 1) =>
                  mc = <<t.root, t.children[1].root>>
           /\ (Len(t.children) = 2 /\ mc[2] = t.children[2].root) =>
                  EdgeDepth(t.children[2]) > EdgeDepth(t.children[1])
           /\ main_chain_height([TheState EXCEPT !.unstable_blocks = returned.before])
                  = utxos.next_height + EdgeDepth(t)

\* get_main_chain ran on a root with two children of equal depth, each with a
\* child of its own.
C5_Witness ==
    /\ returned.op = "get_main_chain"
    /\ Len(returned.before.tree.children) = 2
    /\ EdgeDepth(returned.before.tree.children[1]) = 1
    /\ EdgeDepth(returned.before.tree.children[2]) = 1

\* C6: extend with a block whose hash is already in the tree (the root
\* included) returns Ok and leaves the tree unchanged; extend twice with the
\* same block yields the tree of extend once.
C6_DuplicateExtendIsNoOp ==
    returned.op = "extend" =>
        /\ returned.block.hash \in NodeHashes(returned.before.tree) =>
               returned.result = Ok /\ unstable_blocks = returned.before
        /\ extend(unstable_blocks.tree, returned.block).tree = unstable_blocks.tree
        /\ returned.result = Ok => extend(unstable_blocks.tree, returned.block).result = Ok

\* extend was called with the block of the root of a tree that has children.
C6_Witness ==
    /\ returned.op = "extend"
    /\ returned.block = returned.before.tree.root
    /\ returned.before.tree.children # <<>>
    /\ returned.result = Ok

\* C7: extend with a block not in the tree whose prev_blockhash is the hash of
\* node n returns Ok, and the tree is the old tree with one new leaf holding
\* the block as the last child of n; nothing else changes.
C7_ExtendAppendsLastChild ==
    (/\ returned.op = "extend"
     /\ returned.block.hash \notin NodeHashes(returned.before.tree)
     /\ returned.block.prev_blockhash \in NodeHashes(returned.before.tree)) =>
        LET old == returned.before.tree
            new == unstable_blocks.tree
        IN /\ returned.result = Ok
           /\ unstable_blocks.stability_threshold = returned.before.stability_threshold
           /\ \E n \in Paths(old) :
                 LET leaf == Append(n, Len(Sub(old, n).children) + 1) IN
                 /\ Sub(old, n).root.hash = returned.block.prev_blockhash
                 /\ Paths(new) = Paths(old) \cup {leaf}
                 /\ Sub(new, leaf) = [root |-> returned.block, children |-> <<>>]
                 /\ \A q \in Paths(old) : Sub(new, q).root = Sub(old, q).root

\* extend added a block under a node that is not the root and had a child.
C7_Witness ==
    /\ returned.op = "extend"
    /\ returned.block.hash \notin NodeHashes(returned.before.tree)
    /\ \E n \in Paths(returned.before.tree) :
          /\ n # <<>>
          /\ Sub(returned.before.tree, n).root.hash = returned.block.prev_blockhash
          /\ Sub(returned.before.tree, n).children # <<>>

\* C8: a block not in the tree whose prev_blockhash matches no node is
\* rejected: extend returns BlockDoesNotExtendTree with that block, push and
\* insert_block return an error, and the tree (the state) is as it was.
C8_OrphanRejected ==
    (/\ returned.op = "extend"
     /\ returned.block.hash \notin NodeHashes(returned.before.tree)
     /\ returned.block.prev_blockhash \notin NodeHashes(returned.before.tree)) =>
        LET state == [TheState EXCEPT !.unstable_blocks = returned.before] IN
        /\ returned.result = [ok |-> FALSE, err |-> Some(returned.block)]
        /\ unstable_blocks = returned.before
        /\ ~push(returned.before, returned.block).result.ok
        /\ push(returned.before, returned.block).blocks = returned.before
        /\ \A header_valid \in BOOLEAN :
              /\ insert_block(state, returned.block, header_valid).result = "PrevHeaderNotFound"
              /\ insert_block(state, returned.block, header_valid).state = state

\* extend rejected a block on a tree that has a fork.
C8_Witness ==
    /\ returned.op = "extend"
    /\ ~returned.result.ok
    /\ Len(returned.before.tree.children) >= 2

\* C9: after any sequence of extend and pop from a single-root tree, every
\* non-root node's prev_blockhash is its parent's block hash, and no two nodes
\* have the same block hash.
C9_TreeInvariants ==
    LET t == unstable_blocks.tree IN
    /\ \A p \in Paths(t) \ {<<>>} :
          Sub(t, p).root.prev_blockhash = block_hash(Sub(t, Front(p)).root)
    /\ \A p, q \in Paths(t) :
          p # q => block_hash(Sub(t, p).root) # block_hash(Sub(t, q).root)

\* A pop left a tree with a fork below its new root.
C9_Witness ==
    /\ returned.op = "pop"
    /\ returned.result # None
    /\ Len(unstable_blocks.tree.children) >= 2

\* C10: for a hash present in the tree, get_chain_with_tip returns the chain
\* that starts with the root, ends with the block of that hash, is as long as
\* the tip's distance from the root plus one, and links each block to the one
\* before it; for a hash of no node it returns None.
C10_ChainWithTip ==
    returned.op = "get_chain_with_tip" =>
        LET t == returned.before.tree IN
        IF returned.tip \in NodeHashes(t)
        THEN /\ returned.result # None
             /\ LET chain == into_chain(Unwrap(returned.result)) IN
                /\ chain[1] = t.root
                /\ block_hash(chain[Len(chain)]) = returned.tip
                /\ \E p \in Paths(t) :
                      block_hash(Sub(t, p).root) = returned.tip /\ Len(chain) = Len(p) + 1
                /\ \A i \in 2..Len(chain) :
                      chain[i].prev_blockhash = block_hash(chain[i - 1])
        ELSE returned.result = None

\* The tip is two blocks below the root, on a fork that is not the first.
C10_Witness ==
    /\ returned.op = "get_chain_with_tip"
    /\ returned.result # None
    /\ \E p \in Paths(returned.before.tree) :
          /\ block_hash(Sub(returned.before.tree, p).root) = returned.tip
          /\ Len(p) >= 2
          /\ p[1] >= 2
\* Path p comes before path q in the depth-first pre-order that visits the
\* children in insertion order (neither leaf path is a prefix of the other).
PreOrderBefore(p, q) ==
    \E j \in 1..Len(p) :
        /\ j <= Len(q)
        /\ p[j] < q[j]
        /\ \A i \in 1..(j - 1) : p[i] = q[i]

\* C11: blockchains returns one chain per leaf, each the whole path from the
\* root to that leaf, in the depth-first pre-order of the leaves with children
\* visited in insertion order; on a tree of one block it returns one chain
\* holding only the root, and on a root whose i children are leaves i chains.
C11_BlockchainsOnePerLeaf ==
    returned.op = "blockchains" =>
        LET t == returned.before.tree
            chains == returned.result
            leaf(i) == CHOOSE p \in LeafPaths(t) : into_chain(chains[i]) = BlocksAlong(t, p)
        IN /\ Len(chains) = Cardinality(LeafPaths(t))
           /\ \A i \in 1..Len(chains) :
                 \E p \in LeafPaths(t) : into_chain(chains[i]) = BlocksAlong(t, p)
           /\ \A i, j \in 1..Len(chains) : i < j => PreOrderBefore(leaf(i), leaf(j))
           /\ t.children = <<>> => chains = <<[first |-> t.root, successors |-> <<>>]>>
           /\ (\A c \in 1..Len(t.children) : t.children[c].children = <<>>) =>
                  Len(chains) = Max(1, Len(t.children))

\* blockchains ran on a tree of three leaves whose second child is a chain
\* of two blocks.
C11_Witness ==
    /\ returned.op = "blockchains"
    /\ Len(returned.result) = 3
    /\ Len(returned.before.tree.children) = 3
    /\ returned.before.tree.children[2].children # <<>>

\* C12: depth is the number of edges of the longest path from the root to a
\* leaf: 0 for a single node, 1 for a root whose children are all leaves, and
\* the greatest chain length of blockchains minus one.
C12_DepthIsLongestPath ==
    returned.op = "depth" =>
        LET t == returned.before.tree
            chains == blockchains(t)
        IN /\ returned.result = EdgeDepth(t)
           /\ t.children = <<>> => returned.result = 0
           /\ (/\ t.children # <<>>
               /\ \A c \in 1..Len(t.children) : t.children[c].children = <<>>) =>
                  returned.result = 1
           /\ returned.result =
                  SetMax({BlockChain_len(chains[i]) : i \in 1..Len(chains)}) - 1

\* depth ran on a root whose first child is deeper than its last child.
C12_Witness ==
    /\ returned.op = "depth"
    /\ Len(returned.before.tree.children) >= 2
    /\ EdgeDepth(returned.before.tree.children[1]) >
          EdgeDepth(returned.before.tree.children[Len(returned.before.tree.children)])
\* What C13 says of one call of a public operation.
NextHeightStep ==
    /\ stable_height(TheState)' - stable_height(TheState) = hist'.num_done - hist.num_done
    /\ stable_height(TheState)' >= stable_height(TheState)
    /\ returned'.op = "insert_block" =>
           stable_height(TheState)' = stable_height(TheState)

\* What C13 says of one call of ingest_block or ingest_block_continue, made
\* in the current state with any budget.
IngestCallHeights ==
    \A budget \in Budgets :
        LET r == IF utxos.ingesting_block # None
                 THEN ingest_block_continue(utxos, budget)
                 ELSE IF peek(unstable_blocks) # None
                 THEN Some(ingest_block(utxos, Unwrap(peek(unstable_blocks)), budget))
                 ELSE None
        IN r # None =>
              Unwrap(r).utxos.next_height =
                  utxos.next_height + IF Unwrap(r).slicing = "Done" THEN 1 ELSE 0

StableBlockAt(height) == CHOOSE b \in Blocks \cup {genesis_block} :
                            <<b, height>> \in stable_block_headers

\* The outputs a block at a height creates, as the shards hold them.
CreatedBy(block, height) ==
    UNION {{[outpoint |-> OutPoint(Txs(block)[t].txid, v - 1),
             entry |-> [output |-> Txs(block)[t].output[v], height |-> height]] :
               v \in 1..Len(Txs(block)[t].output)} : t \in 1..Len(Txs(block))}

\* The outpoints the inputs of a block refer to.
SpentBy(block) ==
    UNION {{Txs(block)[t].input[j] : j \in 1..Len(Txs(block)[t].input)} :
              t \in 1..Len(Txs(block))}

\* The inputs of the block being ingested that lie before the stored position.
IngestedInputs(u) ==
    IF u.ingesting_block = None THEN {}
    ELSE LET ib == Unwrap(u.ingesting_block)
             txs == Txs(ib.block)
         IN UNION {{txs[t].input[j] :
                       j \in {i \in 1..Len(txs[t].input) :
                                 \/ t < ib.tx_index
                                 \/ ib.phase = "Outputs"
                                 \/ i < ib.io_index}} :
                     t \in {x \in 1..Len(txs) : x <= ib.tx_index}}

\* The shard for a script length: small up to 25 bytes, medium up to 201.
ShardFor(len) ==
    IF len <= 25 THEN "small_utxos" ELSE IF len <= 201 THEN "medium_utxos" ELSE "large_utxos"

\* C14: with next_height = h, every output created by a block of the
\* stabilized chain at a height below h and not spent by an input ingested
\* since is in the shard of its script length with its creation height, and
\* every output spent by an input of a block below h is in no shard; with no
\* ingestion in progress the shards hold exactly the outputs created and not
\* spent by the blocks 0..h-1.
C14_UtxoSetIsReference ==
    LET h == utxos.next_height
        created == UNION {CreatedBy(StableBlockAt(i), i) : i \in 0..(h - 1)}
        spent == UNION {SpentBy(StableBlockAt(i)) : i \in 0..(h - 1)}
    IN /\ \A i \in 0..(h - 1) :
             Cardinality({e \in stable_block_headers : e[2] = i}) = 1
       /\ \A c \in created :
             c.outpoint \notin spent \cup IngestedInputs(utxos) =>
                 /\ c.outpoint \in DOMAIN utxos[ShardFor(c.entry.output.script.len)]
                 /\ utxos[ShardFor(c.entry.output.script.len)][c.outpoint] = c.entry
       /\ \A o \in spent : \A x \in Held(utxos) : x.outpoint # o
       /\ utxos.ingesting_block = None =>
             /\ Held(utxos) = {c \in created : c.outpoint \notin spent}
             /\ \A c \in Held(utxos) :
                   c.outpoint \in DOMAIN utxos[ShardFor(c.entry.output.script.len)]

\* Two blocks are ingested and the ingestion of the third is paused after its
\* first input, which spent an output of the second block.
C14_Witness ==
    /\ utxos.next_height = 2
    /\ utxos.ingesting_block # None
    /\ Unwrap(utxos.ingesting_block).stats.ins = 1
    /\ utxos.medium_utxos # EmptyMap
\* The number of input steps of a transaction: none for a coinbase.
InputSteps(tx) == IF tx.is_coinbase THEN 0 ELSE Len(tx.input)

\* The steps of one transaction: its inputs in order, then its outputs in order.
StepsOfTx(txs, t) ==
    [i \in 1..(InputSteps(txs[t]) + Len(txs[t].output)) |->
        IF i <= InputSteps(txs[t])
        THEN [tx_index |-> t, phase |-> "Inputs", io_index |-> i]
        ELSE [tx_index |-> t, phase |-> "Outputs", io_index |-> i - InputSteps(txs[t])]]

\* The steps of the transactions t.. of a block, in block order.
RECURSIVE StepsFrom(_, _)
StepsFrom(txs, t) ==
    IF t > Len(txs) THEN <<>> ELSE StepsOfTx(txs, t) \o StepsFrom(txs, t + 1)

AllSteps(block) == StepsFrom(Txs(block), 1)

\* Step s lies before the stored position of a partial ingestion.
BeforePosition(s, ib) ==
    \/ s.tx_index < ib.tx_index
    \/ /\ s.tx_index = ib.tx_index
       /\ \/ s.phase = "Inputs" /\ ib.phase = "Outputs"
          \/ s.phase = ib.phase /\ s.io_index < ib.io_index

\* C15: the steps of a block are executed once each, in the order inputs of
\* tx 0, outputs of tx 0, inputs of tx 1, outputs of tx 1, ..., however the
\* ingestion is suspended: the steps executed so far are the steps before
\* the stored (tx_index, phase, io_index), none repeated or skipped.  A
\* transaction spends outputs of earlier transactions of its block, and while
\* its inputs are processed none of its own outputs is in the UTXO set.
C15_StepOrderSurvivesSuspension ==
    /\ utxos.ingesting_block = None => hist.steps = <<>>
    /\ utxos.ingesting_block # None =>
          LET ib == Unwrap(utxos.ingesting_block)
              all == AllSteps(ib.block)
              n == Len(hist.steps)
          IN /\ n <= Len(all)
             /\ hist.steps = SubSeq(all, 1, n)
             /\ \A i \in 1..Len(all) : BeforePosition(all[i], ib) <=> i <= n
             /\ ib.stats.ins + ib.stats.outs = n
             /\ (ib.phase = "Inputs" /\ ib.tx_index <= Len(Txs(ib.block))) =>
                   \A v \in 1..Len(Txs(ib.block)[ib.tx_index].output) :
                       get_utxo(utxos, OutPoint(Txs(ib.block)[ib.tx_index].txid, v - 1)) = None
    /\ hist.done # None =>
          LET d == Unwrap(hist.done)
              txs == Txs(d.block)
          IN /\ d.steps = AllSteps(d.block)
             /\ \A t, e \in 1..Len(txs) :
                   (\E j \in 1..Len(txs[t].input) : txs[t].input[j].txid = txs[e].txid)
                       => e < t

\* A block whose second transaction spends an output of its first was
\* ingested in three calls or more, and the next block is paused between the
\* two inputs of its second transaction.
C15_Witness ==
    /\ hist.done # None
    /\ Unwrap(hist.done).block # genesis_block
    /\ Unwrap(hist.done).stats.num_rounds >= 3
    /\ utxos.ingesting_block # None
    /\ Len(hist.steps) = 3
\* C16: an outpoint is in at most one of the three shards, and the shard is
\* the one of the script length L of its output: small for L <= 25, medium
\* for 26 <= L <= 201, large for L > 201.
C16_ShardExclusivity ==
    /\ DOMAIN utxos.small_utxos \cap DOMAIN utxos.medium_utxos = {}
    /\ DOMAIN utxos.small_utxos \cap DOMAIN utxos.large_utxos = {}
    /\ DOMAIN utxos.medium_utxos \cap DOMAIN utxos.large_utxos = {}
    /\ \A o \in DOMAIN utxos.small_utxos : utxos.small_utxos[o].output.script.len <= 25
    /\ \A o \in DOMAIN utxos.medium_utxos :
          /\ 26 <= utxos.medium_utxos[o].output.script.len
          /\ utxos.medium_utxos[o].output.script.len <= 201
    /\ \A o \in DOMAIN utxos.large_utxos : utxos.large_utxos[o].output.script.len > 201

\* The shards hold scripts of 25, 26, 201 and 202 bytes.
C16_Witness ==
    /\ \E o \in DOMAIN utxos.small_utxos : utxos.small_utxos[o].output.script.len = 25
    /\ \E o \in DOMAIN utxos.medium_utxos : utxos.medium_utxos[o].output.script.len = 26
    /\ \E o \in DOMAIN utxos.medium_utxos : utxos.medium_utxos[o].output.script.len = 201
    /\ \E o \in DOMAIN utxos.large_utxos : utxos.large_utxos[o].output.script.len = 202
\* C17: ingest_stable_blocks_into_utxoset returns only with a block partially
\* ingested (ingesting_block set), or with peek returning None and no partial
\* ingestion left; it never returns with a stabilizable root that is neither
\* ingested nor paused.
C17_ReturnsPausedOrDrained ==
    (returned.op = "ingest_stable_blocks_into_utxoset" /\ returned.result # None) =>
        \/ utxos.ingesting_block # None
        \/ /\ utxos.ingesting_block = None
           /\ peek(unstable_blocks) = None
           /\ ~Stabilizable(unstable_blocks)

\* A call returned after the second block was ingested, nothing partially
\* ingested, and the root left has a child that does not make it stable.
C17_Witness ==
    /\ returned.op = "ingest_stable_blocks_into_utxoset"
    /\ returned.result = Some(TRUE)
    /\ utxos.ingesting_block = None
    /\ utxos.next_height = 2
    /\ unstable_blocks.tree.children # <<>>
\* What C18 says of one call of ingest_stable_blocks_into_utxoset that returns.
HasStateChangedStep ==
    (returned'.op = "ingest_stable_blocks_into_utxoset" /\ returned'.result # None) =>
        /\ Unwrap(returned'.result) =
               (\/ utxos'.next_height # utxos.next_height
                \/ utxos'.ingesting_block # utxos.ingesting_block)
        /\ (utxos.ingesting_block = None /\ ~Stabilizable(unstable_blocks)) =>
               /\ returned'.result = Some(FALSE)
               /\ utxos' = utxos
               /\ unstable_blocks' = unstable_blocks

\* C18: ingest_stable_blocks_into_utxoset returns true iff next_height or
\* ingesting_block at return differs from its value at the start of the call;
\* it returns false when no block is partially ingested and the root is not
\* stabilizable, and then the UTXO set and the unstable tree are unchanged.
C18_HasStateChanged == [][HasStateChangedStep]_vars

\* A call returned false on a tree whose root has two children.
C18_Witness ==
    /\ returned.op = "ingest_stable_blocks_into_utxoset"
    /\ returned.result = Some(FALSE)
    /\ Len(unstable_blocks.tree.children) = 2
    /\ utxos.next_height = 1
\* C19: after every public operation main_chain_height is stable_height plus
\* the number of blocks of the unstable main chain minus 1; the main chain
\* holds at least the root, so the u32 subtraction never underflows; a fresh
\* state has main_chain_height 0.
C19_MainChainHeight ==
    LET chain == into_chain(get_main_chain(unstable_blocks)) IN
    /\ Len(chain) >= 1
    /\ chain[1] = unstable_blocks.tree.root
    /\ Len(chain) + stable_height(TheState) >= 1
    /\ main_chain_height(TheState) = stable_height(TheState) + Len(chain) - 1
    /\ main_chain_height(TheState) = hist.num_done + EdgeDepth(unstable_blocks.tree)
    /\ returned.op = "new" => main_chain_height(TheState) = 0

\* One block is stable and the unstable main chain holds two blocks, on a
\* tree with a fork.
C19_Witness ==
    /\ returned.op = "ingest_stable_blocks_into_utxoset"
    /\ stable_height(TheState) = 1
    /\ main_chain_height(TheState) = 2
    /\ Len(unstable_blocks.tree.children) = 2
\* The depth of the deepest child of the root other than the deepest one;
\* -1, the depth of a missing child, when the root has fewer than two children.
MaxSiblingsDepth(t) ==
    IF t.children = <<>> THEN -1
    ELSE OtherDepth(t, CHOOSE i \in 1..Len(t.children) :
                          \A j \in 1..Len(t.children) :
                              EdgeDepth(t.children[j]) <= EdgeDepth(t.children[i]))

\* C20 as stated: whenever pop returns None,
\* depth(tree) < stability_threshold + max_siblings_depth + 1, for every
\* threshold, 0 included, and every root, one with no child included.
C20_PopNoneBoundsDepth ==
    (returned.op = "pop" /\ returned.result = None) =>
        depth(unstable_blocks.tree) <
            unstable_blocks.stability_threshold + MaxSiblingsDepth(unstable_blocks.tree) + 1

\* C20: whenever pop returns None, and the root has a child or the threshold
\* is at least 1, depth(tree) < stability_threshold + max_siblings_depth + 1;
\* on a root without children and threshold 0 pop returns None as well and
\* both sides are 0.
C20_PopNoneBoundsDepthWithChildOrThreshold ==
    (returned.op = "pop" /\ returned.result = None) =>
        IF unstable_blocks.tree.children = <<>> /\ unstable_blocks.stability_threshold = 0
        THEN /\ depth(unstable_blocks.tree) = 0
             /\ unstable_blocks.stability_threshold
                    + MaxSiblingsDepth(unstable_blocks.tree) + 1 = 0
        ELSE depth(unstable_blocks.tree) <
                 unstable_blocks.stability_threshold
                     + MaxSiblingsDepth(unstable_blocks.tree) + 1

\* pop returned None on a root with two children, the deeper a chain of two.
C20_Witness ==
    /\ returned.op = "pop"
    /\ returned.result = None
    /\ Len(unstable_blocks.tree.children) = 2
    /\ depth(unstable_blocks.tree) = 2
    /\ MaxSiblingsDepth(unstable_blocks.tree) = 0
\* The path of the main chain: a longest path to a leaf, the one through the
\* child inserted first where two longest paths part.
MainPath(t) ==
    CHOOSE p \in LeafPaths(t) :
        \A q \in LeafPaths(t) :
            /\ Len(q) <= Len(p)
            /\ (Len(q) = Len(p) /\ q # p) => p[FirstDiff(p, q)] < q[FirstDiff(p, q)]

\* The blocks from genesis to the tip of the main chain: the stable blocks by
\* height, then the unstable main chain.
LogicalChain ==
    LET mc == BlocksAlong(unstable_blocks.tree, MainPath(unstable_blocks.tree))
        h == utxos.next_height
    IN [i \in 1..(h + Len(mc)) |-> IF i <= h THEN StableBlockAt(i - 1) ELSE mc[i - h]]

\* The unspent outputs to an address of a chain of blocks from genesis on.
UnspentOf(chain, address) ==
    LET created == UNION {CreatedBy(chain[i], i - 1) : i \in 1..Len(chain)}
        spent == UNION {SpentBy(chain[i]) : i \in 1..Len(chain)}
    IN {[outpoint |-> c.outpoint, output |-> c.entry.output, height |-> c.entry.height] :
           c \in {x \in created : /\ x.outpoint \notin spent
                                   /\ x.entry.output.script.address = Some(address)}}

\* C21: for a fixed main-chain tip get_utxos(address) yields the same set
\* before a block is moved from the unstable tree into the UTXO set, in every
\* paused state of its ingestion and after it (the unspent outputs to the
\* address of the chain up to the tip), and no outpoint is yielded both from
\* the stable set and from the unstable blocks.
C21_StabilizationKeepsAnswers ==
    returned.op = "get_utxos" =>
        /\ Unwrap(returned.result).stable \cup Unwrap(returned.result).unstable
               = UnspentOf(LogicalChain, returned.address)
        /\ {x.outpoint : x \in Unwrap(returned.result).stable}
               \cap {x.outpoint : x \in Unwrap(returned.result).unstable} = {}
\* The blocks of the unstable main chain, read from the paths of the tree.
MainChainBlocks == BlocksAlong(unstable_blocks.tree, MainPath(unstable_blocks.tree))

\* The outpoints the inputs of the blocks of the unstable main chain refer to.
MainChainInputs == UNION {SpentBy(MainChainBlocks[i]) : i \in 1..Len(MainChainBlocks)}

\* The entries of the stable set for an address, as get_utxos yields them.
StableEntries(address) ==
    {[outpoint |-> x.outpoint, output |-> x.entry.output, height |-> x.entry.height] :
        x \in {y \in Held(utxos) : y.entry.output.script.address = Some(address)}}

\* The outputs to an address the blocks of the unstable main chain create,
\* each with the height of its block.
MainChainOutputs(address) ==
    {[outpoint |-> c.outpoint, output |-> c.entry.output, height |-> c.entry.height] :
        c \in {x \in UNION {CreatedBy(MainChainBlocks[i], utxos.next_height + i - 1) :
                                i \in 1..Len(MainChainBlocks)} :
                  x.entry.output.script.address = Some(address)}}

\* C22: get_utxos(address) yields exactly the stable entries of the address,
\* plus the outputs to the address of the blocks of the unstable main chain
\* with their unstable heights, minus every outpoint an input of a main-chain
\* block refers to; a stable output spent by a main-chain block is absent
\* though its shard holds it, and blocks of other forks contribute nothing.
C22_GetUtxosIsStablePlusMainChain ==
    returned.op = "get_utxos" =>
        LET a == returned.address
            yielded == Unwrap(returned.result).stable \cup Unwrap(returned.result).unstable
        IN /\ yielded = {x \in StableEntries(a) \cup MainChainOutputs(a) :
                            x.outpoint \notin MainChainInputs}
           /\ \A x \in StableEntries(a) :
                 x.outpoint \in MainChainInputs => x \notin yielded
           /\ \A x \in yielded :
                 \E i \in 1..Len(LogicalChain) : x.outpoint.txid[1] = LogicalChain[i].hash

\* get_utxos ran with nothing partially ingested, on a tree with a fork, for
\* an address with a stable output that a block of the main chain spends.
C22_Witness ==
    /\ returned.op = "get_utxos"
    /\ utxos.ingesting_block = None
    /\ Len(unstable_blocks.tree.children) >= 2
    /\ \E x \in StableEntries(returned.address) : x.outpoint \in MainChainInputs
    /\ Unwrap(returned.result).unstable # {}
HeldOutPoints(u) == {x.outpoint : x \in Held(u)}

\* The outpoints the transactions of a block before transaction t create.
CreatedBefore(block, t) ==
    UNION {{OutPoint(Txs(block)[e].txid, v - 1) : v \in 1..Len(Txs(block)[e].output)} :
              e \in 1..(t - 1)}

\* The input steps a block has: one per input of a transaction that is not a
\* coinbase, with the outpoint it refers to.
InputStepsOf(block) ==
    UNION {{[step |-> [tx_index |-> t, phase |-> "Inputs", io_index |-> j],
             outpoint |-> Txs(block)[t].input[j]] :
               j \in 1..Len(Txs(block)[t].input)} :
             t \in {e \in 1..Len(Txs(block)) : ~Txs(block)[e].is_coinbase}}

\* The steps in a sequence of steps.
StepSet(steps) == {steps[i] : i \in 1..Len(steps)}

\* C24: an input step whose outpoint is in none of the three shards ends the
\* ingestion with a fatal error: the program stops at that step, the block is
\* not counted as ingested and stays the root of the tree; a block that
\* reached Done had every input of its transactions other than the coinbase
\* looked up, found and removed; a paused ingestion has found and removed
\* every such input before its position.  The input of a coinbase is the one
\* input with no step, and it is in no shard.
C24_MissingInputIsFatal ==
    /\ panic = Some("missing input") =>
          /\ utxos.ingesting_block # None
          /\ LET ib == Unwrap(utxos.ingesting_block)
                 tx == Txs(ib.block)[ib.tx_index]
             IN /\ ib.phase = "Inputs"
                /\ ~tx.is_coinbase
                /\ tx.input[ib.io_index] \notin HeldOutPoints(utxos)
                /\ hist.done # None => Unwrap(hist.done).block # ib.block
                /\ unstable_blocks.tree.root = ib.block
          /\ utxos.next_height = hist.num_done
          /\ returned.result = None
    /\ utxos.ingesting_block # None =>
          LET ib == Unwrap(utxos.ingesting_block) IN
          \A x \in InputStepsOf(ib.block) :
              BeforePosition(x.step, ib) =>
                  /\ x.step \in StepSet(hist.steps)
                  /\ x.outpoint \in HeldOutPoints(hist.started)
                                      \cup CreatedBefore(ib.block, x.step.tx_index)
                  /\ x.outpoint \notin HeldOutPoints(utxos)
    /\ hist.done # None =>
          LET d == Unwrap(hist.done) IN
          /\ \A x \in InputStepsOf(d.block) :
                /\ x.step \in StepSet(d.steps)
                /\ x.outpoint \in HeldOutPoints(d.before)
                                    \cup CreatedBefore(d.block, x.step.tx_index)
                /\ x.outpoint \notin HeldOutPoints(d.after)
          /\ \A t \in 1..Len(Txs(d.block)) :
                Txs(d.block)[t].is_coinbase =>
                    /\ Len(Txs(d.block)[t].input) = 1
                    /\ Txs(d.block)[t].input[1] \notin HeldOutPoints(d.before)
                    /\ \A st \in StepSet(d.steps) :
                          ~(st.tx_index = t /\ st.phase = "Inputs")
          /\ d.stats.ins = Cardinality(InputStepsOf(d.block))

\* The ingestion of a block stopped at an input that no shard holds, in its
\* second call or later, after the outputs of the coinbase were inserted and
\* while a block ingested before it is in the UTXO set.
C24_Witness ==
    /\ panic = Some("missing input")
    /\ utxos.ingesting_block # None
    /\ Unwrap(utxos.ingesting_block).stats.num_rounds >= 2
    /\ Unwrap(utxos.ingesting_block).stats.outs = 2
    /\ hist.num_done >= 1

\* C27: the sanity assertion of pop_block never fails, whatever the
\* interleaving of insert_block and ingest_stable_blocks_into_utxoset: no
\* call ends in the panic of pop_block.
C27_PopBlockAssertionHolds == panic # Some("pop_block: assertion failed")

\* No block is partially ingested, no block is stabilizable, and every block
\* that was found stable is counted in next_height.
Drained ==
    /\ panic = None
    /\ utxos.ingesting_block = None
    /\ peek(unstable_blocks) = None
    /\ \A e \in stable_block_headers : e[2] < utxos.next_height

\* The program ended in insert_block, or at an input that no shard holds.
EndedElsewhere ==
    panic \in {Some("missing input"),
               Some("Inserting a block with a validated header must succeed.")}

\* C25: when the caller keeps calling ingest_stable_blocks_into_utxoset and
\* from some point on no block is inserted, then after finitely many calls
\* ingesting_block is None, peek returns None and next_height counts every
\* block that was found stable, and it stays so (unless the program ended at
\* a block with a missing input or in insert_block).
C25_IngestionDrains ==
    \/ []<><<InsertBlockAny>>_state_vars
    \/ <>[]Drained
    \/ <>EndedElsewhere

\* The step of a call of insert_block, and of a call of
\* ingest_stable_blocks_into_utxoset.
InsertBlockStep == returned'.op = "insert_block"

IngestStep == returned'.op = "ingest_stable_blocks_into_utxoset"

StatsAsClaimedStep ==
    /\ InsertBlockStep => block_ingestion_stats' = block_ingestion_stats
    /\ (IngestStep /\ utxos'.ingesting_block # None /\ panic' = None) =>
          block_ingestion_stats' = block_ingestion_stats
    /\ (IngestStep /\ hist'.num_done > hist.num_done) =>
          block_ingestion_stats' # block_ingestion_stats

\* C26: block_ingestion_stats is unchanged by insert_block and by every call
\* of ingest_stable_blocks_into_utxoset that returns because the ingestion
\* paused, and differs from its previous value after a call in which a block
\* reached Done.
C26_StatsReplacedOnDoneAndDiffer == [][StatsAsClaimedStep]_vars

StatsReplacedStep ==
    /\ InsertBlockStep => block_ingestion_stats' = block_ingestion_stats
    /\ (IngestStep /\ hist'.num_done = hist.num_done) =>
          block_ingestion_stats' = block_ingestion_stats
    /\ (IngestStep /\ hist'.num_done > hist.num_done) =>
          LET d == Unwrap(hist'.done) IN
          /\ block_ingestion_stats' = d.stats
          /\ d.stats.ins = Cardinality(InputStepsOf(d.block))
          /\ d.stats.ins + d.stats.outs = Len(AllSteps(d.block))
          /\ d.stats.num_rounds >= 1
          /\ block_ingestion_stats' # Stats_default

\* C26, amended: block_ingestion_stats is unchanged by insert_block and by
\* every call of ingest_stable_blocks_into_utxoset in which no block reaches
\* Done; a call in which a block reaches Done, whether it then returns paused
\* inside the next block or not, leaves in it the stats of the last block that
\* reached Done (its input steps, its output steps, its rounds), which are
\* never the default stats; they may equal the stats held before.
C26_StatsReplacedExactlyOnDone == [][StatsReplacedStep]_vars

\* Two blocks reached Done, the second in two rounds or more, and the call
\* that finished it returned paused inside a third block, its stats in
\* block_ingestion_stats.
C26_Witness ==
    /\ hist.num_done >= 2
    /\ returned.op = "ingest_stable_blocks_into_utxoset"
    /\ block_ingestion_stats = Unwrap(hist.done).stats
    /\ block_ingestion_stats.num_rounds >= 2
    /\ utxos.ingesting_block # None
    /\ Unwrap(utxos.ingesting_block).stats.num_rounds = 1

\* The blocks popped by a step: as many as ingestions reached Done in it.
PoppedByStep == hist'.num_done - hist.num_done

MainChainKeptStep ==
    (IngestStep /\ panic' # Some("pop_block: assertion failed")) =>
        /\ main_chain_height(TheState)' = main_chain_height(TheState)
        /\ unstable_blocks' = unstable_blocks => PoppedByStep = 0
        /\ unstable_blocks' # unstable_blocks =>
              LET before == MainChainBlocks
                  after == MainChainBlocks'
                  n == PoppedByStep
              IN /\ n >= 1
                 /\ n <= Len(before) - 1
                 /\ after = SubSeq(before, n + 1, Len(before))
                 /\ \A b \in NodeBlocks(unstable_blocks.tree) \ NodeBlocks(unstable_blocks'.tree) :
                       \/ \E i \in 1..n : b = before[i]
                       \/ \A i \in 1..Len(before) : b # before[i]
                 /\ \A i \in 1..n :
                       <<before[i], utxos.next_height + i - 1>> \in stable_block_headers'

\* C28: stabilization never discards a block of the main chain: in every call
\* of ingest_stable_blocks_into_utxoset in which pop succeeds, whatever the
\* threshold and the depths of the children of the root, the main chain after
\* the call
\* is the main chain before it without the blocks popped, which are its first
\* blocks; main_chain_height is unchanged, the blocks popped are stored as
\* stable, and every other block that leaves the tree is off the main chain.
C28_MainChainKept == [][MainChainKeptStep]_vars

\* With threshold 0 a call has popped a block and paused inside the next,
\* the root, which has two children of equal depth, one of which will leave
\* the tree.
C28_Witness ==
    /\ unstable_blocks.stability_threshold = 0
    /\ hist.num_done >= 1
    /\ panic = None
    /\ returned.op = "ingest_stable_blocks_into_utxoset"
    /\ Len(unstable_blocks.tree.children) = 2
    /\ EdgeDepth(unstable_blocks.tree.children[1]) = EdgeDepth(unstable_blocks.tree.children[2])
====
